---- MODULE Spec2Model ----
(***************************************************************************)
(* The resumable training orchestrator of train2.py (function main, lines  *)
(* 515-723): the checkpoint file, the record (csv) file, the epoch loop    *)
(* with its per-batch training / evaluation / final-recompute passes, and  *)
(* process termination and restart; and, of the startup before it, the     *)
(* test of the dataset directories (lines 416-428).                        *)
(*                                                                         *)
(* The two files are the files at the path main computes at line 522-524   *)
(* (out_<date>_<actfun>_<data>_<seed>); the behaviours are the successive  *)
(* process executions, with one fixed command line, that resolve to that   *)
(* path.                                                                   *)
(*                                                                         *)
(* The networks are external to train2.py.  A parameter set is modelled by *)
(* the number of optimizer updates applied to it, the loss and the number  *)
(* of correct predictions of a batch by functions of (weights, stream,     *)
(* batch index).  Means and accuracies are kept as fractions <<num, den>>, *)
(* so that the divisions of lines 620-621, 647-648, 676-677, 691-692 are   *)
(* exact.                                                                  *)
(***************************************************************************)
EXTENDS Integers, Sequences, FiniteSets, TLC

(* ------------------------------ bounds -------------------------------- *)
\* largest value of --epochs
MaxEpochs == 2
\* len(loader_train), number of batches of the training stream
NTrainBatches == 2
\* len(loader_eval), number of batches of the evaluation stream
NEvalBatches == 1
\* number of times the process is started again after it ended
MaxRestarts == 1
\* number of training batches whose gradients overflow
MaxOverflows == 1

(* ------------------------- program constants -------------------------- *)
\* --seed default
DEFAULT_SEED == 42
\* --k default
DEFAULT_K == 2
\* torch.cuda.amp.GradScaler() initial scale, as log2 (2^16)
INIT_SCALE == 16

PERM_METHOD == "shuffle"
PRETRAINED == "pretrained"

(* ------------------------------ fractions ----------------------------- *)
Frac(a, b) == <<a, b>>
ZeroFrac == Frac(0, 1)
FracEq(x, y) == x[1] * y[2] = y[1] * x[2]
FracSub(x, y) == Frac(x[1] * y[2] - y[1] * x[2], x[2] * y[2])
FracIsZero(x) == x[1] = 0

(* -------------------------- external collaborators -------------------- *)
NBatches(stream) == IF stream = "train" THEN NTrainBatches ELSE NEvalBatches

\* len(prediction): the last batch of a stream is the short one
BatchLen(stream, b) == IF b = NBatches(stream) THEN 1 ELSE 2

\* criterion(model(pre_model(x)), target) for batch b (1-based) of a stream,
\* with head weights w
Loss(w, stream, b) == (IF stream = "train" THEN 50 ELSE 70) + 3 * b - w

\* torch.sum(prediction == target.data)
Correct(w, stream, b) == (w + b) % (BatchLen(stream, b) + 1)

\* what one batch contributes: loss.item(), the number of correct predictions,
\* len(prediction)
Batch(w, stream, b) == [loss |-> Loss(w, stream, b),
                        correct |-> Correct(w, stream, b),
                        len |-> BatchLen(stream, b)]

(* ------------------------------ configuration ------------------------- *)
\* architecture parameters given on the command line (--actfun --p --k --g)
Archs == { [actfun |-> "swish", p |-> 1, k |-> kk, g |-> 1] :
             kk \in {DEFAULT_K, DEFAULT_K + 1} }

\* --apex-amp and --native-amp (lines 244-247), explored with one epoch, no
\* check path and the default k
AmpFlags(e, cp, a) ==
    IF e = 1 /\ cp = "" /\ a.k = DEFAULT_K
    THEN BOOLEAN \X BOOLEAN ELSE {<<FALSE, FALSE>>}

ArgsSet ==
    UNION { { [epochs |-> e, check_path |-> cp, control_amp |-> amp,
               seed |-> DEFAULT_SEED, actfun |-> a.actfun, p |-> a.p, k |-> a.k,
               g |-> a.g, apex_amp |-> fl[1], native_amp |-> fl[2]] :
                amp \in {"", "native", "apex"}, fl \in AmpFlags(e, cp, a) } :
            e \in 1..MaxEpochs, cp \in {"", "checks"}, a \in Archs }

ArchOfArgs(a) == [actfun |-> a.actfun, p |-> a.p, k |-> a.k, g |-> a.g,
                  perm_method |-> PERM_METHOD]

(* ------------------------------ files --------------------------------- *)
\* a save that stores the number of the epoch before the one about to run
CheckpointDictPreviousEpoch(pm, m, o, s, a, ep) ==
    [pre_model_state_dict |-> pm, model_state_dict |-> m, optimizer |-> o,
     scheduler |-> s, curr_seed |-> a.seed, epoch |-> ep - 1, actfun |-> a.actfun,
     p |-> a.p, k |-> a.k, g |-> a.g, perm_method |-> PERM_METHOD]

\* a save that stores the default k in place of the configured one
CheckpointDictDefaultK(pm, m, o, s, a, ep) ==
    [pre_model_state_dict |-> pm, model_state_dict |-> m, optimizer |-> o,
     scheduler |-> s, curr_seed |-> a.seed, epoch |-> ep, actfun |-> a.actfun,
     p |-> a.p, k |-> DEFAULT_K, g |-> a.g, perm_method |-> PERM_METHOD]

\* a save that stores the number of the epoch after the one about to run
CheckpointDictNextEpoch(pm, m, o, s, a, ep) ==
    [pre_model_state_dict |-> pm, model_state_dict |-> m, optimizer |-> o,
     scheduler |-> s, curr_seed |-> a.seed, epoch |-> ep + 1, actfun |-> a.actfun,
     p |-> a.p, k |-> a.k, g |-> a.g, perm_method |-> PERM_METHOD]

\* the dictionary of lines 562-570
CheckpointDict(pm, m, o, s, a, ep) ==
    [pre_model_state_dict |-> pm, model_state_dict |-> m, optimizer |-> o,
     scheduler |-> s, curr_seed |-> a.seed, epoch |-> ep, actfun |-> a.actfun,
     p |-> a.p, k |-> a.k, g |-> a.g, perm_method |-> PERM_METHOD]

ArchOfCheckpoint(d) == [actfun |-> d.actfun, p |-> d.p, k |-> d.k, g |-> d.g,
                        perm_method |-> d.perm_method]

NoData == CheckpointDict(PRETRAINED, 0, 0, 0, [seed |-> 0, actfun |-> "", p |-> 0, k |-> 0, g |-> 0], 0)

\* contents of the file at checkpoint_path
NoFile == [status |-> "absent", data |-> NoData]
TruncatedFile == [status |-> "truncated", data |-> NoData]
CompleteFile(d) == [status |-> "complete", data |-> d]

\* contents of the file at outfile_path
NoOutFile == [exists |-> FALSE, rows |-> <<>>]
HeaderOnly == [exists |-> TRUE, rows |-> <<>>]

\* which of <data>/train, <data>/val, <data>/validation exist when line 416 is
\* reached
DataDirs == [train : BOOLEAN, val : BOOLEAN, validation : BOOLEAN]
UsualDirs == [train |-> TRUE, val |-> TRUE, validation |-> FALSE]

VARIABLES
    args,               \* the parsed command line
    dirs,               \* the directories found under args.data
    shapes_compatible,  \* whether heads built from the stored and the configured
                        \* architecture parameters have state dicts of equal shapes
    ckptFile,           \* the file at checkpoint_path
    outFile,            \* the file at outfile_path
    pc,                 \* position of the process in main
    epoch,              \* main's local epoch
    checkpoint,         \* main's local checkpoint (line 531)
    pre_model, model, optimizer, scheduler,   \* network / optimizer / schedule state
    scaler,             \* scale (log2) of the GradScaler, 0 when none
    batch_idx,          \* batches consumed in the current pass
    total_train_loss, total_val_loss, n, num_correct, num_total,
    epoch_aug_train_loss, epoch_aug_train_acc,
    epoch_val_loss, epoch_val_acc,
    epoch_train_loss, epoch_train_acc,
    \* history variables
    restarts,           \* process starts after the first
    initial,            \* which files existed before the first start
    atEpochStart,       \* network state when the current epoch's iteration began
    in_loop_train,      \* the values computed at lines 620-621 in this epoch
    lastEnd,            \* how the last ended process ended
    overflows,          \* batches whose gradients overflowed so far
    batches             \* loss, correct count and length of each batch of the
                        \* training or evaluation pass under way

fsVars == <<ckptFile, outFile>>
netVars == <<pre_model, model, optimizer, scheduler>>
accVars == <<total_train_loss, total_val_loss, n, num_correct, num_total>>
epochVars == <<epoch_aug_train_loss, epoch_aug_train_acc, epoch_val_loss,
               epoch_val_acc, epoch_train_loss, epoch_train_acc>>
cfgVars == <<args, dirs, shapes_compatible, initial>>
histVars == <<restarts, atEpochStart, in_loop_train, lastEnd, overflows, batches>>

vars == <<cfgVars, fsVars, pc, epoch, checkpoint, netVars, scaler, batch_idx,
          accVars, epochVars, histVars>>

NetState == [pre_model |-> pre_model, model |-> model, optimizer |-> optimizer,
             scheduler |-> scheduler]
NoNet == [pre_model |-> PRETRAINED, model |-> 0, optimizer |-> 0, scheduler |-> 0]
NoEnd == [how |-> "none", epoch |-> 0, start |-> NoNet, first |-> 0]
NoLoop == [loss |-> ZeroFrac, acc |-> ZeroFrac]

\* a checkpoint file left by an earlier execution of this program, which was
\* run with the default --k and reached epoch e
EarlierCheckpoints ==
    { CompleteFile(CheckpointDict(PRETRAINED, (e - 1) * NTrainBatches,
                                  (e - 1) * NTrainBatches, (e - 1) * NTrainBatches,
                                  [seed |-> DEFAULT_SEED, actfun |-> "swish",
                                   p |-> 1, k |-> DEFAULT_K, g |-> 1], e)) :
        e \in 1..MaxEpochs }

\* the locals of a process that has not run yet (lines 335-369, 506-513)
FreshLocals ==
    /\ epoch = 1
    /\ checkpoint = NoFile
    /\ pre_model = PRETRAINED
    /\ model = 0
    /\ optimizer = 0
    /\ scheduler = 0
    /\ scaler = 0
    /\ batch_idx = 0
    /\ total_train_loss = 0
    /\ total_val_loss = 0
    /\ n = 0
    /\ num_correct = 0
    /\ num_total = 0
    /\ epoch_aug_train_loss = ZeroFrac
    /\ epoch_aug_train_acc = ZeroFrac
    /\ epoch_val_loss = ZeroFrac
    /\ epoch_val_acc = ZeroFrac
    /\ epoch_train_loss = ZeroFrac
    /\ epoch_train_acc = ZeroFrac
    /\ atEpochStart = NoNet
    /\ in_loop_train = NoLoop
    /\ batches = <<>>

\* the smallest configuration: one epoch, no checkpoints, full precision
SmallestArgs(a) == a.epochs = 1 /\ a.check_path = "" /\ a.control_amp = ""

\* lines 417-419 alone, without the validation directories of lines 421-427
DataFoundTrainOnly(d) == d.train

\* lines 417-428: a training directory and one of the two validation
\* directories are there
DataFound(d) == d.train /\ (d.val \/ d.validation)

Init ==
    /\ args \in ArgsSet
    /\ dirs \in { d \in DataDirs :
                     DataFound(d) /\ d # UsualDirs => SmallestArgs(args) }
    /\ ckptFile \in {NoFile} \cup EarlierCheckpoints
    /\ outFile \in {NoOutFile, HeaderOnly}
    /\ shapes_compatible \in
         IF ckptFile.status = "complete"
            /\ ArchOfCheckpoint(ckptFile.data) # ArchOfArgs(args)
         THEN BOOLEAN ELSE {TRUE}
    /\ initial = [ckpt |-> ckptFile.status # "absent", out |-> outFile.exists]
    /\ pc = "Initializing"
    /\ FreshLocals
    /\ restarts = 0
    /\ lastEnd = NoEnd
    /\ overflows = 0


(* ------------------------- process states ---------------------------- *)
InLoop == {"Checkpointing", "Saving", "Training", "Evaluating",
           "FinalRecomputeTrain", "FinalRecomputeEval", "Recording", "Advancing"}
Ended == {"Crashed", "Done", "Fatal"}
\* after the iteration's checkpoint step and before its row is appended
MidEpoch == {"Training", "Evaluating", "FinalRecomputeTrain", "FinalRecomputeEval",
             "Recording"}

\* a process that ends loses its locals
LocalsLost ==
    /\ epoch' = 1
    /\ checkpoint' = NoFile
    /\ pre_model' = PRETRAINED
    /\ model' = 0
    /\ optimizer' = 0
    /\ scheduler' = 0
    /\ scaler' = 0
    /\ batch_idx' = 0
    /\ total_train_loss' = 0
    /\ total_val_loss' = 0
    /\ n' = 0
    /\ num_correct' = 0
    /\ num_total' = 0
    /\ epoch_aug_train_loss' = ZeroFrac
    /\ epoch_aug_train_acc' = ZeroFrac
    /\ epoch_val_loss' = ZeroFrac
    /\ epoch_val_acc' = ZeroFrac
    /\ epoch_train_loss' = ZeroFrac
    /\ epoch_train_acc' = ZeroFrac
    /\ atEpochStart' = NoNet
    /\ in_loop_train' = NoLoop
    /\ batches' = <<>>

(* ------------------------- startup, lines 525-556 --------------------- *)
\* lines 525-528: the record file is created with its header when absent
WithHeader(f) == IF f.exists THEN f ELSE HeaderOnly

\* line 534: load_state_dict is strict, it raises when the shapes differ
LoadAccepts(d) ==
    \/ ArchOfCheckpoint(d) = ArchOfArgs(args)
    \/ shapes_compatible

\* a load that leaves out scheduler.load_state_dict
RestoredWithoutScheduler(d) ==
    [pre_model |-> d.pre_model_state_dict, model |-> d.model_state_dict,
     optimizer |-> d.optimizer, scheduler |-> 0, epoch |-> d.epoch]

\* a load that leaves out optimizer.load_state_dict
RestoredFreshOptimizer(d) ==
    [pre_model |-> d.pre_model_state_dict, model |-> d.model_state_dict,
     optimizer |-> 0, scheduler |-> d.scheduler, epoch |-> d.epoch]

\* lines 533-537: what the process continues with after a load
Restored(d) == [pre_model |-> d.pre_model_state_dict, model |-> d.model_state_dict,
                optimizer |-> d.optimizer, scheduler |-> d.scheduler,
                epoch |-> d.epoch]

\* lines 417-419, 421-427: exit(1) before the record file is created (line 525)
\* and before the checkpoint is looked for (line 531)
StartNoData ==
    /\ pc = "Initializing"
    /\ ~DataFound(dirs)
    /\ lastEnd' = [how |-> "exit 1", epoch |-> 0, start |-> NoNet, first |-> 0]
    /\ pc' = "Fatal"
    /\ LocalsLost
    /\ UNCHANGED <<cfgVars, fsVars, restarts, overflows>>

\* no file at checkpoint_path: checkpoint is None, epoch stays 1
StartFresh ==
    /\ pc = "Initializing"
    /\ DataFound(dirs)
    /\ ckptFile.status = "absent"
    /\ outFile' = WithHeader(outFile)
    /\ checkpoint' = NoFile
    /\ epoch' = 1
    /\ pc' = "Checkpointing"
    /\ UNCHANGED <<cfgVars, ckptFile, netVars, scaler, batch_idx, accVars,
                   epochVars, histVars>>

\* the file exists and loads; nothing compares its actfun, p, k, g,
\* perm_method with args (lines 540-551 only print them)
StartResume ==
    /\ pc = "Initializing"
    /\ DataFound(dirs)
    /\ ckptFile.status = "complete"
    /\ LoadAccepts(ckptFile.data)
    /\ outFile' = WithHeader(outFile)
    /\ checkpoint' = ckptFile
    /\ LET r == Restored(ckptFile.data) IN
         /\ pre_model' = r.pre_model
         /\ model' = r.model
         /\ optimizer' = r.optimizer
         /\ scheduler' = r.scheduler
         /\ epoch' = r.epoch
    /\ pc' = "Checkpointing"
    /\ UNCHANGED <<cfgVars, ckptFile, scaler, batch_idx, accVars, epochVars,
                   histVars>>

\* torch.load raises on a truncated file, load_state_dict on differing shapes
StartLoadError ==
    /\ pc = "Initializing"
    /\ DataFound(dirs)
    /\ \/ ckptFile.status = "truncated"
       \/ ckptFile.status = "complete" /\ ~LoadAccepts(ckptFile.data)
    /\ outFile' = WithHeader(outFile)
    /\ lastEnd' = [how |-> "fatal", epoch |-> 0, start |-> NoNet, first |-> 0]
    /\ pc' = "Fatal"
    /\ LocalsLost
    /\ UNCHANGED <<cfgVars, ckptFile, restarts, overflows>>

(* ------------------------- loop head, lines 559-578 ------------------- *)
\* line 578: a GradScaler is made in every iteration under --control-amp native
NewScaler == IF args.control_amp = "native" THEN INIT_SCALE ELSE 0

\* lines 573-582: seeding, scaler, model.train(), zeroed accumulators
EnterTraining ==
    /\ scaler' = NewScaler
    /\ total_train_loss' = 0
    /\ n' = 0
    /\ num_correct' = 0
    /\ num_total' = 0
    /\ batch_idx' = 0
    /\ pc' = "Training"

\* lines 530-537: the epoch the loop of this process began with
FirstEpoch == IF checkpoint.status = "complete" THEN checkpoint.data.epoch ELSE 1

\* line 559, condition false
LoopExit ==
    /\ pc = "Checkpointing"
    /\ epoch > args.epochs
    /\ lastEnd' = [how |-> "done", epoch |-> epoch, start |-> NoNet,
                   first |-> FirstEpoch]
    /\ pc' = "Done"
    /\ LocalsLost
    /\ UNCHANGED <<cfgVars, fsVars, restarts, overflows>>

\* lines 561-562: torch.save opens checkpoint_path for writing, which empties it
SaveBegin ==
    /\ pc = "Checkpointing"
    /\ epoch <= args.epochs
    /\ args.check_path # ""
    /\ ckptFile' = TruncatedFile
    /\ atEpochStart' = NetState
    /\ pc' = "Saving"
    /\ UNCHANGED <<cfgVars, outFile, epoch, checkpoint, netVars, scaler, batch_idx,
                   accVars, epochVars, restarts, in_loop_train, lastEnd, overflows,
                   batches>>

\* lines 562-571 completed, then lines 573-582
SaveEnd ==
    /\ pc = "Saving"
    /\ ckptFile' = CompleteFile(CheckpointDict(pre_model, model, optimizer,
                                               scheduler, args, epoch))
    /\ EnterTraining
    /\ UNCHANGED <<cfgVars, outFile, epoch, checkpoint, netVars, total_val_loss,
                   epochVars, histVars>>

\* line 561, check_path empty: no checkpoint is written
SkipSave ==
    /\ pc = "Checkpointing"
    /\ epoch <= args.epochs
    /\ args.check_path = ""
    /\ atEpochStart' = NetState
    /\ EnterTraining
    /\ UNCHANGED <<cfgVars, fsVars, epoch, checkpoint, netVars, total_val_loss,
                   epochVars, restarts, in_loop_train, lastEnd, overflows, batches>>


(* ------------------------- training pass, lines 583-621 --------------- *)
\* optimizer.step() called on every batch, in place of scaler.step(optimizer)
StepAppliedAlways(overflow) == TRUE

\* lines 586-615: whether the optimizer step of a batch changes the parameters;
\* only scaler.step (line 595) leaves them alone, on a batch whose gradients
\* overflowed
StepApplied(overflow) == ~(args.control_amp = "native" /\ overflow)

\* line 596, scaler.update: the scale is halved after an overflow
ScalerUpdate(sc, overflow) ==
    IF args.control_amp = "native" /\ overflow THEN sc - 1 ELSE sc

\* whether the gradients of the next training batch overflow in half precision
OverflowOutcomes ==
    IF args.control_amp = "native" /\ overflows < MaxOverflows
    THEN BOOLEAN ELSE {FALSE}

TrainBatch ==
    /\ pc = "Training"
    /\ batch_idx < NTrainBatches
    /\ \E overflow \in OverflowOutcomes :
         /\ model' = IF StepApplied(overflow) THEN model + 1 ELSE model
         /\ optimizer' = IF StepApplied(overflow) THEN optimizer + 1 ELSE optimizer
         /\ scaler' = ScalerUpdate(scaler, overflow)
         /\ overflows' = IF overflow THEN overflows + 1 ELSE overflows
    /\ scheduler' = scheduler + 1
    /\ total_train_loss' = total_train_loss + Loss(model, "train", batch_idx + 1)
    /\ n' = n + 1
    /\ num_correct' = num_correct + Correct(model, "train", batch_idx + 1)
    /\ num_total' = num_total + BatchLen("train", batch_idx + 1)
    /\ batch_idx' = batch_idx + 1
    /\ batches' = Append(batches, Batch(model, "train", batch_idx + 1))
    /\ UNCHANGED <<cfgVars, fsVars, pc, epoch, checkpoint, pre_model,
                   total_val_loss, epochVars, restarts, atEpochStart,
                   in_loop_train, lastEnd>>

\* lines 620-621 with the loss total divided by the number of samples
TrainEndPerSample ==
    /\ pc = "Training"
    /\ batch_idx = NTrainBatches
    /\ epoch_aug_train_loss' = Frac(total_train_loss, num_total)
    /\ epoch_aug_train_acc' = Frac(num_correct, num_total)
    /\ in_loop_train' = [loss |-> Frac(total_train_loss, num_total),
                         acc |-> Frac(num_correct, num_total)]
    /\ total_val_loss' = 0
    /\ n' = 0
    /\ num_correct' = 0
    /\ num_total' = 0
    /\ batch_idx' = 0
    /\ batches' = <<>>
    /\ pc' = "Evaluating"
    /\ UNCHANGED <<cfgVars, fsVars, epoch, checkpoint, netVars, scaler,
                   total_train_loss, epoch_val_loss, epoch_val_acc,
                   epoch_train_loss, epoch_train_acc, restarts, atEpochStart,
                   lastEnd, overflows>>

\* lines 620-621, then 633-635
TrainEnd ==
    /\ pc = "Training"
    /\ batch_idx = NTrainBatches
    /\ epoch_aug_train_loss' = Frac(total_train_loss, n)
    /\ epoch_aug_train_acc' = Frac(num_correct, num_total)
    /\ in_loop_train' = [loss |-> Frac(total_train_loss, n),
                         acc |-> Frac(num_correct, num_total)]
    /\ total_val_loss' = 0
    /\ n' = 0
    /\ num_correct' = 0
    /\ num_total' = 0
    /\ batch_idx' = 0
    /\ batches' = <<>>
    /\ pc' = "Evaluating"
    /\ UNCHANGED <<cfgVars, fsVars, epoch, checkpoint, netVars, scaler,
                   total_train_loss, epoch_val_loss, epoch_val_acc,
                   epoch_train_loss, epoch_train_acc, restarts, atEpochStart,
                   lastEnd, overflows>>

(* ------------------------- evaluation pass, lines 636-662 ------------- *)
\* an evaluation batch followed by scheduler.step()
EvalBatchStepsSchedule ==
    /\ pc = "Evaluating"
    /\ batch_idx < NEvalBatches
    /\ total_val_loss' = total_val_loss + Loss(model, "eval", batch_idx + 1)
    /\ n' = n + 1
    /\ num_correct' = num_correct + Correct(model, "eval", batch_idx + 1)
    /\ num_total' = num_total + BatchLen("eval", batch_idx + 1)
    /\ batch_idx' = batch_idx + 1
    /\ batches' = Append(batches, Batch(model, "eval", batch_idx + 1))
    /\ scheduler' = scheduler + 1
    /\ UNCHANGED <<cfgVars, fsVars, pc, epoch, checkpoint, pre_model, model,
                   optimizer, scaler,
                   total_train_loss, epochVars, restarts, atEpochStart,
                   in_loop_train, lastEnd, overflows>>

EvalBatch ==
    /\ pc = "Evaluating"
    /\ batch_idx < NEvalBatches
    /\ total_val_loss' = total_val_loss + Loss(model, "eval", batch_idx + 1)
    /\ n' = n + 1
    /\ num_correct' = num_correct + Correct(model, "eval", batch_idx + 1)
    /\ num_total' = num_total + BatchLen("eval", batch_idx + 1)
    /\ batch_idx' = batch_idx + 1
    /\ batches' = Append(batches, Batch(model, "eval", batch_idx + 1))
    /\ UNCHANGED <<cfgVars, fsVars, pc, epoch, checkpoint, netVars, scaler,
                   total_train_loss, epochVars, restarts, atEpochStart,
                   in_loop_train, lastEnd, overflows>>

\* the recompute passes taken in every epoch
IsFinalEpochAlways == TRUE

\* line 662
IsFinalEpoch == epoch = args.epochs

\* lines 647-648, 660-662, and 664 when the final epoch's recompute follows
EvalEnd ==
    /\ pc = "Evaluating"
    /\ batch_idx = NEvalBatches
    /\ epoch_val_loss' = Frac(total_val_loss, n)
    /\ epoch_val_acc' = Frac(num_correct, num_total)
    /\ epoch_train_loss' = ZeroFrac
    /\ epoch_train_acc' = ZeroFrac
    /\ batch_idx' = 0
    /\ IF IsFinalEpoch
       THEN /\ total_train_loss' = 0
            /\ n' = 0
            /\ num_correct' = 0
            /\ num_total' = 0
            /\ pc' = "FinalRecomputeTrain"
       ELSE /\ UNCHANGED <<total_train_loss, n, num_correct, num_total>>
            /\ pc' = "Recording"
    /\ batches' = <<>>
    /\ UNCHANGED <<cfgVars, fsVars, epoch, checkpoint, netVars, scaler,
                   total_val_loss, epoch_aug_train_loss, epoch_aug_train_acc,
                   restarts, atEpochStart, in_loop_train, lastEnd, overflows>>

(* ------------------------- final recompute, lines 663-692 ------------- *)
\* lines 665-675
RecomputeTrainBatch ==
    /\ pc = "FinalRecomputeTrain"
    /\ batch_idx < NTrainBatches
    /\ total_train_loss' = total_train_loss + Loss(model, "train", batch_idx + 1)
    /\ n' = n + 1
    /\ num_correct' = num_correct + Correct(model, "train", batch_idx + 1)
    /\ num_total' = num_total + BatchLen("train", batch_idx + 1)
    /\ batch_idx' = batch_idx + 1
    /\ UNCHANGED <<cfgVars, fsVars, pc, epoch, checkpoint, netVars, scaler,
                   total_val_loss, epochVars, histVars>>

\* lines 676-679
RecomputeTrainEnd ==
    /\ pc = "FinalRecomputeTrain"
    /\ batch_idx = NTrainBatches
    /\ epoch_aug_train_loss' = Frac(total_train_loss, n)
    /\ epoch_aug_train_acc' = Frac(num_correct, num_total)
    /\ total_train_loss' = 0
    /\ n' = 0
    /\ num_correct' = 0
    /\ num_total' = 0
    /\ batch_idx' = 0
    /\ pc' = "FinalRecomputeEval"
    /\ UNCHANGED <<cfgVars, fsVars, epoch, checkpoint, netVars, scaler,
                   total_val_loss, epoch_val_loss, epoch_val_acc,
                   epoch_train_loss, epoch_train_acc, histVars>>

\* lines 680-690
RecomputeEvalBatch ==
    /\ pc = "FinalRecomputeEval"
    /\ batch_idx < NEvalBatches
    /\ total_train_loss' = total_train_loss + Loss(model, "eval", batch_idx + 1)
    /\ n' = n + 1
    /\ num_correct' = num_correct + Correct(model, "eval", batch_idx + 1)
    /\ num_total' = num_total + BatchLen("eval", batch_idx + 1)
    /\ batch_idx' = batch_idx + 1
    /\ UNCHANGED <<cfgVars, fsVars, pc, epoch, checkpoint, netVars, scaler,
                   total_val_loss, epochVars, histVars>>

\* lines 691-692: the quotient is taken of total_val_loss
RecomputeEvalEnd ==
    /\ pc = "FinalRecomputeEval"
    /\ batch_idx = NEvalBatches
    /\ epoch_train_loss' = Frac(total_val_loss, n)
    /\ epoch_train_acc' = Frac(num_correct, num_total)
    /\ pc' = "Recording"
    /\ UNCHANGED <<cfgVars, fsVars, epoch, checkpoint, netVars, scaler, batch_idx,
                   accVars, epoch_aug_train_loss, epoch_aug_train_acc,
                   epoch_val_loss, epoch_val_acc, histVars>>

(* ------------------------- record row, lines 694-723 ------------------ *)
\* the row of lines 697-721 (the columns dataset, time, model, batch_size,
\* alpha_primes, alphas, num_params, curr_lr, found_lr are left out)
Row ==
    [seed |-> args.seed, epoch |-> epoch, actfun |-> args.actfun,
     k |-> args.k, p |-> args.p, g |-> args.g, perm_method |-> PERM_METHOD,
     gen_gap |-> FracSub(epoch_val_loss, epoch_train_loss),
     epoch_train_loss |-> epoch_train_loss,
     epoch_train_acc |-> epoch_train_acc,
     epoch_aug_train_loss |-> epoch_aug_train_loss,
     epoch_aug_train_acc |-> epoch_aug_train_acc,
     epoch_val_loss |-> epoch_val_loss,
     epoch_val_acc |-> epoch_val_acc,
     epochs |-> args.epochs]

\* lines 695-721: the file is opened in append mode
Record ==
    /\ pc = "Recording"
    /\ outFile' = [outFile EXCEPT !.exists = TRUE, !.rows = Append(@, Row)]
    /\ pc' = "Advancing"
    /\ UNCHANGED <<cfgVars, ckptFile, epoch, checkpoint, netVars, scaler,
                   batch_idx, accVars, epochVars, histVars>>

\* line 723
Advance ==
    /\ pc = "Advancing"
    /\ epoch' = epoch + 1
    /\ pc' = "Checkpointing"
    /\ UNCHANGED <<cfgVars, fsVars, checkpoint, netVars, scaler, batch_idx,
                   accVars, epochVars, histVars>>

(* ------------------------- process end and restart -------------------- *)
\* the process is terminated inside the loop (an uncaught exception of a
\* batch, a kill): nothing is caught in main, the files stay as they are
Crash ==
    /\ pc \in InLoop
    /\ lastEnd' = IF pc \in MidEpoch
                  THEN [how |-> "crash in epoch", epoch |-> epoch,
                        start |-> atEpochStart, first |-> 0]
                  ELSE [how |-> "crash", epoch |-> 0, start |-> NoNet, first |-> 0]
    /\ pc' = "Crashed"
    /\ LocalsLost
    /\ UNCHANGED <<cfgVars, fsVars, restarts, overflows>>

\* the same command line is run again
Restart ==
    /\ pc \in Ended
    /\ restarts < MaxRestarts
    /\ restarts' = restarts + 1
    /\ pc' = "Initializing"
    /\ LocalsLost
    /\ UNCHANGED <<cfgVars, fsVars, lastEnd, overflows>>

Next ==
    \/ StartNoData
    \/ StartFresh
    \/ StartResume
    \/ StartLoadError
    \/ LoopExit
    \/ SaveBegin
    \/ SaveEnd
    \/ SkipSave
    \/ TrainBatch
    \/ TrainEnd
    \/ EvalBatch
    \/ EvalEnd
    \/ RecomputeTrainBatch
    \/ RecomputeTrainEnd
    \/ RecomputeEvalBatch
    \/ RecomputeEvalEnd
    \/ Record
    \/ Advance
    \/ Crash
    \/ Restart

Spec == Init /\ [][Next]_vars


(* ====================================================================== *)
(*                                claims                                  *)
(* ====================================================================== *)
CheckpointingOn == args.check_path # ""
StartedEmpty == ~initial.ckpt /\ ~initial.out
Rows == outFile.rows
LastRow == Rows[Len(Rows)]

RECURSIVE SumLoss(_, _, _)
SumLoss(w, stream, b) ==
    IF b = 0 THEN 0 ELSE Loss(w, stream, b) + SumLoss(w, stream, b - 1)
RECURSIVE SumCorrect(_, _, _)
SumCorrect(w, stream, b) ==
    IF b = 0 THEN 0 ELSE Correct(w, stream, b) + SumCorrect(w, stream, b - 1)
RECURSIVE SumLen(_, _)
SumLen(stream, b) == IF b = 0 THEN 0 ELSE BatchLen(stream, b) + SumLen(stream, b - 1)

\* mean per-batch loss and accuracy of a no-gradient pass over a stream with
\* head weights w
CleanLoss(w, stream) == Frac(SumLoss(w, stream, NBatches(stream)), NBatches(stream))
CleanAcc(w, stream) ==
    Frac(SumCorrect(w, stream, NBatches(stream)), SumLen(stream, NBatches(stream)))

\* C1: a process that loaded a checkpoint whose stored architecture parameters
\* (actfun, p, k, g, perm_method) differ from the configured ones never trains,
\* evaluates or records an epoch: its startup ended fatally.
C1_NoIncompatibleResume ==
    ~ /\ pc \in MidEpoch \cup {"Advancing"}
      /\ checkpoint.status = "complete"
      /\ ArchOfCheckpoint(checkpoint.data) # ArchOfArgs(args)

\* C2 as stated: in every configuration, whenever the training phase of an
\* epoch starts, the step that starts it completes the write of a checkpoint
\* whose epoch field is that epoch.
C2_AsStated ==
    [][(pc # "Training" /\ pc' = "Training")
         => /\ pc = "Saving"
            /\ ckptFile'.status = "complete"
            /\ ckptFile'.data.epoch = epoch']_vars

\* C2 amended: when the check path is not empty, whenever the training phase of
\* an epoch e in [1, epochs] starts, the step that starts it completes the write
\* of a checkpoint whose epoch field is e, and the file keeps that epoch field
\* for as long as the training phase lasts.
C2_CheckpointBeforeEpoch ==
    [][(pc' = "Training" /\ CheckpointingOn)
         => /\ pc # "Training" => pc = "Saving"
            /\ ckptFile'.status = "complete"
            /\ ckptFile'.data.epoch = epoch'
            /\ epoch' \in 1..args.epochs]_vars

C2_Witness ==
    /\ pc = "Training"
    /\ batch_idx = 0
    /\ CheckpointingOn
    /\ restarts > 0
    /\ epoch > 1
    /\ checkpoint.status = "complete"
    /\ ckptFile.data.epoch = epoch

C4_CheckpointIsNextEpoch ==
    (StartedEmpty /\ CheckpointingOn /\ ckptFile.status = "complete")
        => \A i \in 1..Len(Rows) : Rows[i].epoch # ckptFile.data.epoch

\* C5: whenever the process is not inside a save, the checkpoint file is absent
\* or holds a complete TrainingState.
C5_SaveAtomic == pc # "Saving" => ckptFile.status # "truncated"

\* C6: a run started with no files (checkpointing on) that reaches Done has one
\* row per epoch 1..epochs in the record file, in increasing order.
C6_OneRowPerEpoch ==
    (pc = "Done" /\ StartedEmpty /\ CheckpointingOn)
        => /\ outFile.exists
           /\ Len(Rows) = args.epochs
           /\ \A i \in 1..Len(Rows) : Rows[i].epoch = i

\* C7: gen_gap is zero in the row of every non-final epoch, and in the row of
\* the final epoch it is the clean evaluation loss minus the clean training
\* loss of the recompute passes.
C7_GenGap ==
    /\ \A i \in 1..Len(Rows) :
         Rows[i].epoch < Rows[i].epochs => FracIsZero(Rows[i].gen_gap)
    /\ (pc = "Advancing" /\ IsFinalEpoch)
         => FracEq(LastRow.gen_gap,
                   FracSub(CleanLoss(model, "eval"), CleanLoss(model, "train")))

\* C8: epoch_train_loss and epoch_train_acc are zero in the row of every
\* non-final epoch, and in the row of the final epoch they are the mean loss
\* and the accuracy of the no-gradient pass over the training stream.
C8_EpochTrain ==
    /\ \A i \in 1..Len(Rows) :
         Rows[i].epoch < Rows[i].epochs
            => /\ FracIsZero(Rows[i].epoch_train_loss)
               /\ FracIsZero(Rows[i].epoch_train_acc)
    /\ (pc = "Advancing" /\ IsFinalEpoch)
         => /\ FracEq(LastRow.epoch_train_loss, CleanLoss(model, "train"))
            /\ FracEq(LastRow.epoch_train_acc, CleanAcc(model, "train"))

\* C9: in every row, the final epoch's too, epoch_aug_train_loss and
\* epoch_aug_train_acc are the values accumulated in that epoch's training loop.
C9_AugTrainInLoop ==
    pc = "Advancing"
        => /\ LastRow.epoch_aug_train_loss = in_loop_train.loss
           /\ LastRow.epoch_aug_train_acc = in_loop_train.acc

\* C10: with checkpointing on and no checkpoint file to begin with, whenever
\* Done is reached, straight through or after restarts, the checkpoint file is
\* complete, its epoch field is the configured number of epochs and its
\* architecture parameters are the configured ones.
C10_ResumptionIdempotence ==
    (pc = "Done" /\ CheckpointingOn /\ ~initial.ckpt)
        => /\ ckptFile.status = "complete"
           /\ ckptFile.data.epoch = args.epochs
           /\ ArchOfCheckpoint(ckptFile.data) = ArchOfArgs(args)

C10_Witness ==
    /\ pc = "Done"
    /\ CheckpointingOn
    /\ ~initial.ckpt
    /\ restarts > 0
    /\ lastEnd.first > 1
    /\ ckptFile.data.epoch = args.epochs
    /\ args.k # DEFAULT_K

DataMissing == ~dirs.train \/ (~dirs.val /\ ~dirs.validation)
C12_NoDataNoFiles ==
    DataMissing
        => /\ pc \in {"Initializing", "Fatal"}
           /\ pc = "Fatal" => lastEnd.how = "exit 1"
           /\ outFile.exists = initial.out
           /\ outFile.rows = <<>>
           /\ (ckptFile.status # "absent") = initial.ckpt
           /\ ckptFile.status # "truncated"

C12_Witness ==
    /\ pc = "Fatal"
    /\ dirs.train
    /\ ~dirs.val
    /\ ~dirs.validation
    /\ lastEnd.how = "exit 1"
    /\ restarts > 0
    /\ ~outFile.exists
    /\ ckptFile.status = "absent"
    /\ args.check_path # ""

RECURSIVE SeqSum(_, _)
SeqSum(seq, field) ==
    IF seq = <<>> THEN 0 ELSE Head(seq)[field] + SeqSum(Tail(seq), field)

\* C13: the mean loss a training pass and an evaluation pass end with is the
\* sum of the losses of the pass's batches over the number of batches, the
\* accuracy is the number of correct predictions over the number of samples,
\* every batch of the stream has been counted, and each of the two passes
\* begins with its accumulators at zero.
C13_PhaseMeans ==
    [][/\ (pc = "Training" /\ pc' = "Evaluating")
            => /\ Len(batches) = NTrainBatches
               /\ epoch_aug_train_loss' = Frac(SeqSum(batches, "loss"), Len(batches))
               /\ epoch_aug_train_acc'
                    = Frac(SeqSum(batches, "correct"), SeqSum(batches, "len"))
       /\ (pc = "Evaluating" /\ pc' \in {"FinalRecomputeTrain", "Recording"})
            => /\ Len(batches) = NEvalBatches
               /\ epoch_val_loss' = Frac(SeqSum(batches, "loss"), Len(batches))
               /\ epoch_val_acc'
                    = Frac(SeqSum(batches, "correct"), SeqSum(batches, "len"))
       /\ (pc # "Training" /\ pc' = "Training")
            => total_train_loss' = 0 /\ n' = 0 /\ num_correct' = 0 /\ num_total' = 0
       /\ (pc # "Evaluating" /\ pc' = "Evaluating")
            => total_val_loss' = 0 /\ n' = 0 /\ num_correct' = 0 /\ num_total' = 0
      ]_vars

C13_Witness ==
    /\ pc = "Recording"
    /\ epoch < args.epochs
    /\ overflows > 0
    /\ epoch_aug_train_loss[2] = NTrainBatches
    /\ epoch_aug_train_acc[2] > NTrainBatches
    /\ epoch_val_loss = CleanLoss(model, "eval")
    /\ epoch_val_acc = CleanAcc(model, "eval")
    /\ epoch_aug_train_loss[1] < SumLoss(atEpochStart.model, "train", NTrainBatches)

\* a training batch under --control-amp native whose gradients overflow
OverflowedBatch ==
    /\ pc = "Training"
    /\ args.control_amp = "native"
    /\ batch_idx' = batch_idx + 1
    /\ overflows' = overflows + 1

\* what the process holds besides the bookkeeping every batch advances
\* (batch_idx, n, the loss and prediction totals, the schedule)
StepCounters == <<scaler, optimizer, model, epoch, total_val_loss>>

C15_BothAmpIsFatal ==
    (args.apex_amp /\ args.native_amp)
        => /\ pc \in {"Initializing", "Fatal"}
           /\ batch_idx = 0
           /\ Rows = <<>>

\* C16: under --control-amp native a process makes its GradScaler once: when
\* the training pass of a later epoch begins, the scaler of the earlier epochs
\* is kept, with the scale it has reached.
C16_ScalerOncePerRun ==
    [][(args.control_amp = "native" /\ pc # "Training" /\ pc' = "Training"
        /\ scaler # 0)
         => scaler' = scaler]_vars

NoGradPasses == {"Evaluating", "FinalRecomputeTrain", "FinalRecomputeEval"}

\* C17: while the process is in the evaluation pass or in one of the two
\* final-epoch recompute passes, no step changes the head weights, the
\* optimizer state or the schedule state; inside the loop the schedule state
\* changes only by a training batch, and every training batch advances it by
\* exactly one step, whether or not its optimizer step was applied; and no step
\* of the loop, in any precision mode, changes the extractor's weights.
C17_PassesFrame ==
    [][/\ (pc \in NoGradPasses /\ pc' \in InLoop)
            => model' = model /\ optimizer' = optimizer /\ scheduler' = scheduler
       /\ (pc \in InLoop /\ pc' \in InLoop /\ scheduler' # scheduler)
            => pc = "Training" /\ batch_idx' = batch_idx + 1
       /\ (pc = "Training" /\ batch_idx' = batch_idx + 1)
            => scheduler' = scheduler + 1
       /\ (pc \in InLoop /\ pc' \in InLoop)
            => pre_model' = pre_model]_vars

C17_Witness ==
    /\ pc = "Recording"
    /\ IsFinalEpoch
    /\ epoch = 2
    /\ args.control_amp = "native"
    /\ overflows = 1
    /\ scheduler = atEpochStart.scheduler + NTrainBatches
    /\ model = atEpochStart.model + NTrainBatches - 1
    /\ optimizer = model
    /\ pre_model = PRETRAINED
    /\ FracEq(epoch_aug_train_loss, CleanLoss(model, "train"))

\* the pass over a stream of nb batches at position here goes on while batches
\* are left and then moves to position after
PassThen(here, nb, after) ==
    IF batch_idx < nb
    THEN pc' = here /\ batch_idx' = batch_idx + 1
    ELSE pc' = after

\* C18: a process that is not terminated from outside enters the loop at epoch
\* 1, or at the epoch of the checkpoint it loaded, and every epoch goes through
\* the checkpoint step, the training pass over all training batches, the
\* evaluation pass over all evaluation batches, the two recompute passes exactly
\* when epoch = epochs, the append of the epoch's row and the increment of the
\* epoch by one, in this order; the loop is left for Done exactly at a checkpoint
\* step with epoch > epochs; and the rows a first process has appended when it
\* reaches Done are those of its first epoch up to epochs, each once, in order.
C18_EpochOrder ==
    [][/\ (pc = "Initializing" /\ pc' = "Checkpointing")
            => epoch' = IF ckptFile.status = "complete"
                        THEN ckptFile.data.epoch ELSE 1
       /\ (pc \in InLoop /\ pc' # "Crashed")
            => /\ pc # "Advancing" /\ pc' # "Done" => epoch' = epoch
               /\ CASE pc = "Checkpointing" ->
                         IF epoch > args.epochs
                         THEN pc' = "Done"
                         ELSE pc' \in {"Saving", "Training"} /\ batch_idx' = 0
                    [] pc = "Saving" -> pc' = "Training" /\ batch_idx' = 0
                    [] pc = "Training" ->
                         PassThen("Training", NTrainBatches, "Evaluating")
                    [] pc = "Evaluating" ->
                         PassThen("Evaluating", NEvalBatches,
                                  IF epoch = args.epochs
                                  THEN "FinalRecomputeTrain" ELSE "Recording")
                    [] pc = "FinalRecomputeTrain" ->
                         /\ epoch = args.epochs
                         /\ PassThen("FinalRecomputeTrain", NTrainBatches,
                                     "FinalRecomputeEval")
                    [] pc = "FinalRecomputeEval" ->
                         /\ epoch = args.epochs
                         /\ PassThen("FinalRecomputeEval", NEvalBatches, "Recording")
                    [] pc = "Recording" ->
                         /\ pc' = "Advancing"
                         /\ Len(outFile'.rows) = Len(Rows) + 1
                         /\ outFile'.rows[Len(Rows) + 1].epoch = epoch
                    [] pc = "Advancing" ->
                         pc' = "Checkpointing" /\ epoch' = epoch + 1
       /\ (pc # "Done" /\ pc' = "Done")
            => /\ pc = "Checkpointing"
               /\ epoch > args.epochs
               /\ restarts = 0
                    => /\ Len(Rows) = IF FirstEpoch > args.epochs THEN 0
                                      ELSE args.epochs - FirstEpoch + 1
                       /\ \A i \in 1..Len(Rows) : Rows[i].epoch = FirstEpoch + i - 1
      ]_vars

C18_Witness ==
    /\ pc = "Done"
    /\ restarts = 0
    /\ initial.ckpt
    /\ lastEnd.how = "done"
    /\ lastEnd.first = 2
    /\ lastEnd.epoch = 3
    /\ args.epochs = 2
    /\ Len(Rows) = 1
    /\ Rows[1].epoch = 2

\* C19: in a run with checkpointing on that began with neither file, over any
\* sequence of epochs, terminations and restarts: whenever the checkpoint file
\* holds a complete checkpoint, every epoch number below its epoch field has a
\* row in the record file; and the epoch field never decreases, neither from
\* one complete content to the next nor across a rewrite (the epoch being
\* written is not below the one the file held, and is the one it holds after).
C19_RowsCoverCheckpoint ==
    [][(StartedEmpty /\ CheckpointingOn)
         => /\ ckptFile'.status = "complete"
                 => \A e \in 1..(ckptFile'.data.epoch - 1) :
                      \E i \in 1..Len(outFile'.rows) : outFile'.rows[i].epoch = e
            /\ (ckptFile.status = "complete" /\ ckptFile'.status = "complete")
                 => ckptFile'.data.epoch >= ckptFile.data.epoch
            /\ (ckptFile.status = "complete" /\ ckptFile'.status = "truncated")
                 => pc' = "Saving" /\ epoch' >= ckptFile.data.epoch
            /\ (pc = "Saving" /\ pc' # "Crashed")
                 => /\ ckptFile'.status = "complete"
                    /\ ckptFile'.data.epoch = epoch
            /\ (ckptFile.status = "truncated" /\ ckptFile'.status # "truncated")
                 => pc = "Saving"
            /\ ckptFile.status # "absent" => ckptFile'.status # "absent"]_vars

C19_Witness ==
    /\ StartedEmpty
    /\ CheckpointingOn
    /\ restarts > 0
    /\ pc = "Training"
    /\ ckptFile.status = "complete"
    /\ ckptFile.data.epoch = 2
    /\ Len(Rows) = 2
    /\ Rows[1].epoch = 1
    /\ Rows[2].epoch = 1

====
